---- MODULE Spec2Model ----
(***************************************************************************)
(* A model of image_stitcher.py: the composition function stitch_images,   *)
(* the working list, the debounced live preview and the output writer of   *)
(* ImageStitcherApp.                                                       *)
(*                                                                         *)
(* Representation notes.                                                   *)
(*  - A path is a record [dir, stem, ext]; ext is what os.path.splitext    *)
(*    returns without its leading dot, in the case the user wrote it.      *)
(*  - A Tk entry bound to an IntVar holds text; EntryInt/EntryReal/        *)
(*    EntryText are the three kinds of text IntVar.get distinguishes.      *)
(*  - A float is an IEEE 754 double, [m, e] for m * 2^e.                    *)
(*  - Python's None is NoJob / NoImage / NoPath, of the type of the value  *)
(*    it stands in for.                                                    *)
(***************************************************************************)
EXTENDS Integers, Sequences, FiniteSets, TLC

\* ------------------------------------------------------------- bounds
\* Longest working list explored.
MaxLen == 2
\* Largest sequence number a sequential write may use.
MaxIndex == 2
\* Largest sequence number of a file that is in the way of a sequential write.
MaxProbe == 4
\* Longest list that is composed in one piece.
MaxImages == 3
\* Largest width, height and target edge of the images that are resized.
MaxPixels == 21

\* ------------------------------------------------------ small helpers
Max2(a, b) == IF a >= b THEN a ELSE b
Min2(a, b) == IF a <= b THEN a ELSE b

RECURSIVE SeqMax(_)
SeqMax(s) == IF Len(s) = 1 THEN s[1] ELSE Max2(s[1], SeqMax(Tail(s)))

RECURSIVE SeqMin(_)
SeqMin(s) == IF Len(s) = 1 THEN s[1] ELSE Min2(s[1], SeqMin(Tail(s)))

RECURSIVE SeqSum(_)
SeqSum(s) == IF s = <<>> THEN 0 ELSE s[1] + SeqSum(Tail(s))

\* The exact quotient n/d (n >= 0, d > 0) rounded to the nearest integer,
\* ties to the even one.
PyRound(n, d) ==
    LET q == n \div d
        r == n % d
    IN  IF 2 * r < d THEN q
        ELSE IF 2 * r > d THEN q + 1
        ELSE IF q % 2 = 0 THEN q ELSE q + 1

\* str.lower() on the extensions that occur.
Lower(e) ==
    CASE e = "JPG" -> "jpg"
      [] e = "Jpeg" -> "jpeg"
      [] e = "PNG" -> "png"
      [] OTHER -> e

RECURSIVE Str(_)
\* str(n) of a non-negative integer, as its sequence of decimal digits.
Str(n) ==
    LET digit == <<"0", "1", "2", "3", "4", "5", "6", "7", "8", "9">>
    IN  IF n < 10 THEN <<digit[n + 1]>>
        ELSE Append(Str(n \div 10), digit[(n % 10) + 1])

\* ------------------------------------------------------- Python floats
\* A natural number of any size is the sequence of its digits in base
\* 2^DigitBits, leading digit first and not 0; <<>> is 0.
DigitBits == 14
Base == 2^DigitBits

\* The significand of a float has this many binary digits.
Precision == 53

RECURSIVE BigOfNat(_)
BigOfNat(n) == IF n = 0 THEN <<>> ELSE Append(BigOfNat(n \div Base), n % Base)

RECURSIVE NatOfBig(_)
NatOfBig(d) ==
    IF d = <<>> THEN 0 ELSE Base * NatOfBig(SubSeq(d, 1, Len(d) - 1)) + d[Len(d)]

RECURSIVE StripZeros(_)
StripZeros(d) == IF d # <<>> /\ d[1] = 0 THEN StripZeros(Tail(d)) ELSE d

\* The number of binary digits of n.
BitLenNat(n) == CHOOSE b \in 0..31 : (b = 0 \/ 2^(b - 1) <= n) /\ (b = 31 \/ n < 2^b)
BitLen(d) == IF d = <<>> THEN 0 ELSE (Len(d) - 1) * DigitBits + BitLenNat(d[1])

RECURSIVE BigMulCarry(_, _, _)
\* d * k + carry, for 0 <= k, carry < 2^16.
BigMulCarry(d, k, carry) ==
    IF d = <<>> THEN BigOfNat(carry)
    ELSE Append(BigMulCarry(SubSeq(d, 1, Len(d) - 1), k, (d[Len(d)] * k + carry) \div Base),
                (d[Len(d)] * k + carry) % Base)

\* A quotient digit in front of the rest of a long division.
QuotientDigit(b, rest) == [q |-> <<b>> \o rest.q, r |-> rest.r]

RECURSIVE BigDivSmall(_, _, _)
\* Long division of rem * Base^Len(d) + d by k, 0 <= rem < k <= Base:
\* [q, r], q with Len(d) digits.
BigDivSmall(d, k, rem) ==
    IF d = <<>> THEN [q |-> <<>>, r |-> rem]
    ELSE QuotientDigit((rem * Base + d[1]) \div k,
                       BigDivSmall(Tail(d), k, (rem * Base + d[1]) % k))

RECURSIVE ShiftLeft(_, _)
\* d * 2^s
ShiftLeft(d, s) ==
    IF s = 0 THEN d
    ELSE IF s >= DigitBits THEN ShiftLeft(d \o <<0>>, s - DigitBits)
    ELSE BigMulCarry(d, 2^s, 0)

\* What is left of a number that is cut: dv the division of its leading
\* digits by 2^part, low the digits cut off whole.
CutOff(dv, low, part) ==
    [q |-> StripZeros(dv.q),
     guard |-> IF part > 0 THEN dv.r \div 2^(part - 1)
               ELSE IF low # <<>> THEN low[1] \div 2^(DigitBits - 1)
               ELSE 0,
     sticky |-> IF part > 0
                THEN (dv.r % 2^(part - 1) # 0) \/ (\E i \in DOMAIN low : low[i] # 0)
                ELSE /\ low # <<>>
                     /\ \/ low[1] % 2^(DigitBits - 1) # 0
                        \/ \E i \in 2..Len(low) : low[i] # 0]

CutDigits(d, whole, part) ==
    CutOff(BigDivSmall(SubSeq(d, 1, Len(d) - whole), 2^part, 0),
           SubSeq(d, Len(d) - whole + 1, Len(d)), part)

\* d with its last s binary digits cut off (0 <= s <= BitLen(d) + 1): what is
\* left (q), the first digit that was cut (guard), and whether any later one
\* was not 0 (sticky).
ShiftRight(d, s) ==
    CutDigits(IF Len(d) < s \div DigitBits THEN <<0>> \o d ELSE d, s \div DigitBits, s % DigitBits)

\* A positive float is [m, e]: m its significand, a number of exactly
\* Precision binary digits, e the exponent of its last digit: m * 2^e.
\* A significand that was rounded up may have one digit too many.
Renormalized(m, e) ==
    IF BitLen(m) = Precision THEN [m |-> m, e |-> e]
    ELSE [m |-> ShiftRight(m, 1).q, e |-> e + 1]

\* Round to nearest, ties to the even significand.
RoundCut(sr, e, sticky) ==
    IF sr.guard = 1 /\ (sticky \/ sr.sticky \/ sr.q[Len(sr.q)] % 2 = 1)
    THEN Renormalized(BigMulCarry(sr.q, 1, 1), e)
    ELSE [m |-> sr.q, e |-> e]

RoundDigits(d, e, sticky, cut) ==
    IF cut <= 0 THEN [m |-> ShiftLeft(d, -cut), e |-> e + cut]
    ELSE RoundCut(ShiftRight(d, cut), e + cut, sticky)

\* The float nearest to d * 2^e (plus, when sticky, something below the last
\* digit of d): IEEE 754 rounds the exact result of every operation so.
RoundToFloat(d, e, sticky) == RoundDigits(d, e, sticky, BitLen(d) - Precision)

\* float(n), n >= 1.
FloatOfInt(n) == RoundToFloat(BigOfNat(n), 0, FALSE)

\* k * x for an int k >= 1 and a float x.
FloatMulInt(k, x) == RoundToFloat(BigMulCarry(x.m, k, 0), x.e, FALSE)

DivRounded(dv, e) == RoundToFloat(StripZeros(dv.q), e, dv.r # 0)

\* x / k for a float x and an int k, 1 <= k < Base.
FloatDivInt(x, k) ==
    DivRounded(BigDivSmall(ShiftLeft(x.m, BitLenNat(k) + 1), k, 0), x.e - (BitLenNat(k) + 1))

FloatLt(x, y) ==
    \/ x.e < y.e
    \/ /\ x.e = y.e
       /\ \E i \in DOMAIN x.m : x.m[i] < y.m[i] /\ \A j \in 1..(i - 1) : x.m[j] = y.m[j]

\* min(x, y) and max(x, y); Python returns the first of two equal arguments.
FloatMin(x, y) == IF FloatLt(y, x) THEN y ELSE x
FloatMax(x, y) == IF FloatLt(x, y) THEN y ELSE x

\* int(x): truncation (x < 2^31).
FloatInt(x) ==
    IF x.e >= 0 THEN NatOfBig(ShiftLeft(x.m, x.e))
    ELSE IF -x.e > Precision THEN 0
    ELSE NatOfBig(ShiftRight(x.m, -x.e).q)

\* The int nearest to a number cut at its binary point, ties to the even one.
NearestInt(i, sr) == IF sr.guard = 1 /\ (sr.sticky \/ i % 2 = 1) THEN i + 1 ELSE i
RoundedInt(sr) == NearestInt(NatOfBig(sr.q), sr)

\* round(x) (x < 2^31).
\* A rounding that drops the fraction.
FloatRoundDown(x) == FloatInt(x)

FloatRound(x) ==
    IF x.e >= 0 THEN NatOfBig(ShiftLeft(x.m, x.e))
    ELSE IF -x.e > Precision + 1 THEN 0
    ELSE RoundedInt(ShiftRight(x.m, -x.e))

\* ------------------------------------------------------- entry texts
EntryInt(n) == [kind |-> "int", val |-> n]
\* the text "n.5" (n >= 0)
EntryReal(n) == [kind |-> "real", val |-> n]
\* a text that is no number
EntryText == [kind |-> "text", val |-> 0]

\* int(IntVar.get()): Tcl's getint, and for a text that is no integer
\* int(getdouble(text)), which truncates; a TclError otherwise.
IntVarGet(t) ==
    CASE t.kind = "int" -> [ok |-> TRUE, val |-> t.val]
      [] t.kind = "real" -> [ok |-> TRUE, val |-> t.val]
      [] OTHER -> [ok |-> FALSE, val |-> 0]

\* ------------------------------------------------------ image files
VALID_EXTS == {"jpg", "jpeg", "png", "bmp", "gif", "webp", "tif", "tiff"}

is_image_file(p) == Lower(p.ext) \in VALID_EXTS

SrcPath(stem, ext) == [dir |-> "pics", stem |-> <<stem>>, ext |-> ext]

\* The files the user can pick or drop: a.png is 2x1 opaque, b.JPG is stored
\* 3x1 with an EXIF quarter turn, c.png is 1x2 with an alpha channel, bad.png
\* has an image extension and does not decode, note.txt is no image.
PathA == SrcPath("a", "png")
PathB == SrcPath("b", "JPG")
PathC == SrcPath("c", "png")
PathBad == SrcPath("bad", "png")
PathNote == SrcPath("note", "txt")

\* The decimal digits ds read as a number: int(str).
DigitValue(c) == CHOOSE n \in 0..9 : Str(n) = <<c>>

RECURSIVE Num(_)
Num(ds) == IF ds = <<>> THEN 0 ELSE 10 * Num(SubSeq(ds, 1, Len(ds) - 1)) + DigitValue(ds[Len(ds)])

\* grid/<w>x<h>.png is an opaque image w wide and h high, for every w and h.
GridFile(w, h) == [dir |-> "grid", stem |-> Str(w) \o <<"x">> \o Str(h), ext |-> "png"]
GridCross(stem) == CHOOSE i \in DOMAIN stem : stem[i] = "x"
GridWidth(stem) == Num(SubSeq(stem, 1, GridCross(stem) - 1))
GridHeight(stem) == Num(SubSeq(stem, GridCross(stem) + 1, Len(stem)))

SourceFile(p) ==
    CASE p.dir = "grid" -> [readable |-> TRUE, w |-> GridWidth(p.stem), h |-> GridHeight(p.stem),
                            mode |-> "RGB", turned |-> FALSE]
      [] p = PathA -> [readable |-> TRUE, w |-> 2, h |-> 1, mode |-> "RGB", turned |-> FALSE]
      [] p = PathB -> [readable |-> TRUE, w |-> 3, h |-> 1, mode |-> "RGB", turned |-> TRUE]
      [] p = PathC -> [readable |-> TRUE, w |-> 1, h |-> 2, mode |-> "RGBA", turned |-> FALSE]
      [] OTHER -> [readable |-> FALSE, w |-> 1, h |-> 1, mode |-> "RGB", turned |-> FALSE]

\* Image.open followed by ImageOps.exif_transpose.
open_image_safe(p) ==
    LET f == SourceFile(p)
    IN  IF f.turned
        THEN [ok |-> f.readable, w |-> f.h, h |-> f.w, mode |-> f.mode]
        ELSE [ok |-> f.readable, w |-> f.w, h |-> f.h, mode |-> f.mode]

\* ImageColor.getcolor(value, "RGBA"), white when it raises.
parse_color(value) ==
    CASE value = "#FFFFFF" -> <<255, 255, 255, 255>>
      [] value = "#000000" -> <<0, 0, 0, 255>>
      [] value = "#00000080" -> <<0, 0, 0, 128>>
      [] OTHER -> <<255, 255, 255, 255>>

\* ------------------------------------------------------ stitch_images
NoImage == [w |-> 0, h |-> 0, mode |-> "none", bg |-> <<>>, pieces |-> <<>>]

\* r = edge / w; max(1, int(round(h * r))): the other edge of an image
\* whose edge of length w becomes edge, h being its other edge.
ScaledEdge(h, edge, w) == Max2(1, FloatRound(FloatMulInt(h, FloatDivInt(FloatOfInt(edge), w))))

\* One image scaled so that its aligned edge equals edge.
ResizeToWidth(im, edge) ==
    IF im.w = edge THEN im
    ELSE [im EXCEPT !.w = edge, !.h = ScaledEdge(im.h, edge, im.w)]

ResizeToHeight(im, edge) ==
    IF im.h = edge THEN im
    ELSE [im EXCEPT !.h = edge, !.w = ScaledEdge(im.w, edge, im.h)]

\* An alignment that takes the largest edge whatever the mode.
AlignImagesToMax(images, orientation, target_edge_mode) ==
    LET widths == [i \in DOMAIN images |-> images[i].w]
        heights == [i \in DOMAIN images |-> images[i].h]
    IN  IF orientation = "vertical"
        THEN [i \in DOMAIN images |-> ResizeToWidth(images[i], SeqMax(widths))]
        ELSE [i \in DOMAIN images |-> ResizeToHeight(images[i], SeqMax(heights))]

AlignImages(images, orientation, target_edge_mode) ==
    LET widths == [i \in DOMAIN images |-> images[i].w]
        heights == [i \in DOMAIN images |-> images[i].h]
    IN  IF orientation = "vertical"
        THEN LET edge == IF target_edge_mode = "max" THEN SeqMax(widths) ELSE SeqMin(widths)
             IN  [i \in DOMAIN images |-> ResizeToWidth(images[i], edge)]
        ELSE LET edge == IF target_edge_mode = "max" THEN SeqMax(heights) ELSE SeqMin(heights)
             IN  [i \in DOMAIN images |-> ResizeToHeight(images[i], edge)]

\* The running paste offset of image i: what the loop has added before it.
\* An offset that leaves the spacing out.
PasteOffsetFlush(lens, spacing, i) == SeqSum(SubSeq(lens, 1, i - 1))

PasteOffset(lens, spacing, i) == SeqSum(SubSeq(lens, 1, i - 1)) + (i - 1) * spacing

\* Spacing counted once for every image.
SpacingEveryImage(spacing, n) == spacing * n

SpacingTotal(spacing, n) == spacing * (IF n > 1 THEN n - 1 ELSE 0)

\* A canvas that has an alpha channel only for a fully transparent background.
CanvasModeWhenClear(bg_rgba) == IF bg_rgba[4] = 0 THEN "RGBA" ELSE "RGB"

CanvasMode(bg_rgba) == IF bg_rgba[4] < 255 THEN "RGBA" ELSE "RGB"

Compose(paths, images, orientation, spacing, bg_color) ==
    LET n == Len(images)
        widths == [i \in 1..n |-> images[i].w]
        heights == [i \in 1..n |-> images[i].h]
        bg_rgba == parse_color(bg_color)
        mode == CanvasMode(bg_rgba)
        bg == IF mode = "RGBA" THEN bg_rgba ELSE SubSeq(bg_rgba, 1, 3)
    IN  IF orientation = "vertical"
        THEN [w |-> SeqMax(widths),
              h |-> SeqSum(heights) + SpacingTotal(spacing, n),
              mode |-> mode, bg |-> bg,
              pieces |-> [i \in 1..n |->
                  [src |-> paths[i], x |-> 0, y |-> PasteOffset(heights, spacing, i),
                   w |-> images[i].w, h |-> images[i].h]]]
        ELSE [w |-> SeqSum(widths) + SpacingTotal(spacing, n),
              h |-> SeqMax(heights),
              mode |-> mode, bg |-> bg,
              pieces |-> [i \in 1..n |->
                  [src |-> paths[i], x |-> PasteOffset(widths, spacing, i), y |-> 0,
                   w |-> images[i].w, h |-> images[i].h]]]

\* stitch_images: [ok, err, img].
stitch_images(paths, orientation, scale_to_align_edge, spacing, bg_color, target_edge_mode) ==
    LET opened == [i \in DOMAIN paths |-> open_image_safe(paths[i])]
    IN  IF paths = <<>>
        THEN [ok |-> FALSE, err |-> "EmptyInput", img |-> NoImage]
        ELSE IF \E i \in DOMAIN opened : ~opened[i].ok
        THEN [ok |-> FALSE, err |-> "Unreadable", img |-> NoImage]
        ELSE IF orientation \notin {"vertical", "horizontal"}
        THEN [ok |-> FALSE, err |-> "InvalidOrientation", img |-> NoImage]
        ELSE LET images == IF scale_to_align_edge
                           THEN AlignImages(opened, orientation, target_edge_mode)
                           ELSE opened
             IN  [ok |-> TRUE, err |-> "",
                  img |-> Compose(paths, images, orientation, spacing, bg_color)]

\* ------------------------------------------------------------ state
VARIABLES
    paths,                 \* self.paths
    listbox,               \* the entries of self.listbox
    live_preview_enabled,  \* self.live_preview_enabled
    preview_img_full,      \* self.preview_img_full
    preview_img_tk,        \* self.preview_img_tk
    preview_scale,         \* self.preview_scale
    preview_job,           \* self._preview_job
    timers,                \* the after() callbacks Tk holds pending
    canvas,                \* the image item of self.preview_canvas
    size_label,            \* the text of self.size_label
    var_orient, var_scale, var_spacing, var_bg, var_target_mode,
    var_output_mode, var_out_dir, var_direct_ext, var_direct_index,
    var_auto_reset,
    files,                 \* the paths that exist on disk
    report,                \* what the handler that ran last did and reported
    last_run,              \* the last run of run_stitch, when runs are recorded
    probe                  \* where the search of run_stitch for a free name stands

listVars == <<paths, listbox>>
paramVars == <<var_orient, var_scale, var_spacing, var_bg, var_target_mode>>
outVars == <<var_output_mode, var_out_dir, var_direct_ext, var_direct_index, var_auto_reset>>
viewVars == <<preview_img_full, preview_img_tk, preview_scale, canvas, size_label>>
timerVars == <<preview_job, timers>>
vars == <<listVars, paramVars, outVars, viewVars, timerVars, live_preview_enabled, files, report,
          last_run, probe>>

NoJob == 0
\* No search for a free name is under way.
NoProbe == [state |-> "idle", idx |-> 0]
\* Tk's after() ids. An id is only ever compared with the one that is being
\* replaced, so an id that has fired or was cancelled may be handed out again.
JobIds == {1, 2}

NoPath == [dir |-> "", stem |-> <<>>, ext |-> ""]
NoDisplay == [w |-> 0, h |-> 0]
BlankLabel == [kind |-> "blank", W |-> 0, H |-> 0, pct |-> 0]
FailedLabel == [kind |-> "failed", W |-> 0, H |-> 0, pct |-> 0]

\* The handler that ran last left no report (every handler but run_stitch
\* and render_preview_full).
NoReport ==
    [op |-> "none", result |-> "", composed |-> FALSE, path |-> NoPath,
     saved |-> NoImage, pre_files |-> {}, pre_index |-> EntryInt(0),
     pre_paths |-> <<>>, pre_img |-> NoImage]

\* Runs are not recorded, or none has happened yet.
NotRecording == [state |-> "off", key |-> <<>>, preview |-> <<>>, out |-> <<>>, twin |-> FALSE]
NoRun == [state |-> "none", key |-> <<>>, preview |-> <<>>, out |-> <<>>, twin |-> FALSE]

\* ------------------------------------------------------ the file system
ExistingDirs == {"out", "home"}
isdir(d) == d \in ExistingDirs

\* str.strip() on the directory texts that occur.
Strip(d) == IF d = " " THEN "" ELSE d

\* os.path.join(out_dir, f"{idx}.{ext}")
SeqPath(out_dir, idx, ext) == [dir |-> out_dir, stem |-> Str(idx), ext |-> ext]

\* The files that may be in the output directory before the program starts.
PreExisting == {SeqPath("out", k, "png") : k \in 1..MaxIndex}

\* What the save dialog can return: NoPath when it is cancelled.
SavePaths ==
    {[dir |-> "home", stem |-> <<"stitched">>, ext |-> "png"],
     [dir |-> "out", stem |-> Str(1), ext |-> "JPG"]}

\* ----------------------------------------------------------------- Init
\* The application as __init__ leaves it.
InitApp ==
    /\ paths = <<>>
    /\ listbox = <<>>
    /\ live_preview_enabled = TRUE
    /\ preview_img_full = NoImage
    /\ preview_img_tk = NoDisplay
    /\ preview_scale = FloatDivInt(FloatOfInt(1), 2)
    \* __init__ ends with schedule_preview_update() and toggle_live_preview(),
    \* which schedules again: one timer is pending.
    /\ preview_job = 2
    /\ timers = {2}
    /\ canvas = NoDisplay
    /\ size_label = BlankLabel
    /\ var_orient = "vertical"
    /\ var_scale = TRUE
    /\ var_spacing = EntryInt(0)
    /\ var_bg = "#FFFFFF"
    /\ var_target_mode = "max"
    /\ var_output_mode = "single"
    /\ var_out_dir = ""
    /\ var_direct_ext = "png"
    /\ var_direct_index = EntryInt(1)
    /\ var_auto_reset = FALSE
    /\ report = NoReport
    /\ probe = NoProbe

\* The output directory holds any of the numbered files.
Init == InitApp /\ files \in SUBSET PreExisting /\ last_run = NotRecording

\* ------------------------------------------------------ live preview
\* A schedule that forgets after_cancel.
AfterCancelForgotten(job, tm) == tm

\* The timers Tk holds once after_cancel(job) has run (job may be None).
AfterCancel(job, tm) == IF job # NoJob THEN tm \ {job} ELSE tm

\* The id root.after() returns: one that is not pending and is not the id
\* just replaced.
FreshJob(job, tm) == CHOOSE id \in JobIds \ (tm \cup {job}) : \A o \in JobIds \ (tm \cup {job}) : id <= o

\* schedule_preview_update: [job, timers] afterwards.
SchedulePreviewUpdate(enabled, job, tm) ==
    IF ~enabled
    THEN [job |-> job, timers |-> tm]
    ELSE LET left == AfterCancel(job, tm)
             id == FreshJob(job, left)
         IN  [job |-> id, timers |-> left \cup {id}]

\* after() can hand out an id.
CanSchedule(enabled, job, tm) == ~enabled \/ JobIds \ (AfterCancel(job, tm) \cup {job}) # {}

\* Every handler that ends with self.schedule_preview_update().
Scheduled ==
    /\ CanSchedule(live_preview_enabled, preview_job, timers)
    /\ preview_job' = SchedulePreviewUpdate(live_preview_enabled, preview_job, timers).job
    /\ timers' = SchedulePreviewUpdate(live_preview_enabled, preview_job, timers).timers

\* The literals 0.05, 3.0 and 0.98.
ScaleMin == FloatDivInt(FloatOfInt(5), 100)
ScaleMax == FloatOfInt(3)
FitMargin == FloatDivInt(FloatOfInt(98), 100)

\* fit_preview_width's scale for a viewport canvas_w wide and an image img_w wide.
\* A fit that is not held to the range of scales.
FitScaleUnclamped(canvas_w, img_w) ==
    FloatDivInt(FloatMulInt(Max2(1, canvas_w), FitMargin), Max2(1, img_w))

FitScale(canvas_w, img_w) ==
    FloatMin(ScaleMax, FloatMax(ScaleMin,
        FloatDivInt(FloatMulInt(Max2(1, canvas_w), FitMargin), Max2(1, img_w))))

\* fit_preview_width: the scale afterwards.
FitPreviewWidth(img, enabled, scale, canvas_w) ==
    IF img = NoImage \/ ~enabled THEN scale ELSE FitScale(canvas_w, img.w)

ClampScale(scale) == FloatMax(ScaleMin, FloatMin(ScaleMax, scale))

\* The buffer render_preview_scaled resizes the image to.
\* A buffer whose sizes are rounded to the nearest pixel.
ScaledSizeRounded(img, scale) ==
    [w |-> Max2(1, FloatRound(FloatMulInt(img.w, ClampScale(scale)))),
     h |-> Max2(1, FloatRound(FloatMulInt(img.h, ClampScale(scale))))]

ScaledSize(img, scale) ==
    LET s == ClampScale(scale)
    IN  [w |-> Max2(1, FloatInt(FloatMulInt(img.w, s))),
         h |-> Max2(1, FloatInt(FloatMulInt(img.h, s)))]

SizeLabel(img, scale) ==
    LET s == ClampScale(scale)
    IN  [kind |-> "size", W |-> img.w, H |-> img.h, pct |-> FloatInt(FloatMulInt(100, s))]

\* render_preview_scaled: [tk, canvas, label] afterwards.
RenderPreviewScaled(img, enabled, scale, tkimg, cv, label) ==
    IF img = NoImage \/ ~enabled
    THEN [tk |-> tkimg, canvas |-> cv, label |-> label]
    ELSE [tk |-> ScaledSize(img, scale), canvas |-> ScaledSize(img, scale),
          label |-> SizeLabel(img, scale)]

\* What render_preview_full does: "cleared" (empty list or preview off),
\* "bad_spacing" (returns at once), "ok", or "failed" (stitch_images raised).
RenderResult(ps, enabled, spacing, stitched) ==
    IF ps = <<>> \/ ~enabled THEN "cleared"
    ELSE IF ~spacing.ok \/ spacing.val < 0 THEN "bad_spacing"
    ELSE IF stitched.ok THEN "ok"
    ELSE "failed"

\* A recompute that keeps the cached image when stitch_images raises.
RenderedImageKeptOnError(result, old, stitched) ==
    CASE result = "cleared" -> NoImage
      [] result = "ok" -> stitched.img
      [] OTHER -> old

\* The cached image after render_preview_full.
\* A recompute that keeps the cached image when it finds nothing to compose.
RenderedImageKeptWhenEmpty(result, old, stitched) ==
    CASE result = "ok" -> stitched.img
      [] result \in {"cleared", "bad_spacing"} -> old
      [] OTHER -> NoImage

RenderedImage(result, old, stitched) ==
    CASE result = "cleared" -> NoImage
      [] result = "bad_spacing" -> old
      [] result = "ok" -> stitched.img
      [] OTHER -> NoImage

\* The after() callback: timer id expires while the viewport is canvas_w wide.
RenderPreviewFull(id, canvas_w) ==
    LET spacing == IntVarGet(var_spacing)
        stitched == stitch_images(paths, var_orient, var_scale, spacing.val, var_bg,
                                  var_target_mode)
        result == RenderResult(paths, live_preview_enabled, spacing, stitched)
        img == RenderedImage(result, preview_img_full, stitched)
        scale == IF result = "ok"
                 THEN FitPreviewWidth(img, live_preview_enabled, preview_scale, canvas_w)
                 ELSE preview_scale
        drawn == RenderPreviewScaled(img, live_preview_enabled, scale, preview_img_tk,
                                     canvas, size_label)
    IN  /\ id \in timers
        /\ timers' = timers \ {id}
        /\ preview_job' = NoJob
        /\ preview_img_full' = img
        /\ preview_scale' = scale
        /\ preview_img_tk' = IF result = "ok" THEN drawn.tk ELSE preview_img_tk
        /\ canvas' = CASE result = "ok" -> drawn.canvas
                       [] result = "bad_spacing" -> canvas
                       [] OTHER -> NoDisplay
        /\ size_label' = CASE result = "ok" -> drawn.label
                           [] result = "bad_spacing" -> size_label
                           [] result = "cleared" -> BlankLabel
                           [] OTHER -> FailedLabel
        /\ report' = [NoReport EXCEPT !.op = "render_preview_full", !.result = result,
                                      !.composed = (result \in {"ok", "failed"}),
                                      !.pre_img = preview_img_full, !.pre_paths = paths]
        /\ UNCHANGED <<last_run, probe>>
        /\ UNCHANGED <<listVars, paramVars, outVars, live_preview_enabled, files>>

\* The "live preview" checkbutton: the variable flips, then toggle_live_preview.
\* The pending timer and the cached preview after the toggle, for the new value.
\* A toggle that drops the handle and leaves the timer running.
ToggleOffTimersLeft(job, tm) == tm

ToggleOffJob(job) == NoJob
ToggleOffTimers(job, tm) == AfterCancel(job, tm)

ToggleLivePreview ==
    LET show == ~live_preview_enabled
    IN  /\ live_preview_enabled' = show
        /\ IF show
           THEN /\ CanSchedule(show, preview_job, timers)
                /\ preview_job' = SchedulePreviewUpdate(show, preview_job, timers).job
                /\ timers' = SchedulePreviewUpdate(show, preview_job, timers).timers
                /\ UNCHANGED viewVars
           ELSE /\ preview_job' = ToggleOffJob(preview_job)
                /\ timers' = ToggleOffTimers(preview_job, timers)
                /\ preview_img_full' = NoImage
                /\ preview_img_tk' = NoDisplay
                /\ canvas' = NoDisplay
                /\ size_label' = BlankLabel
                /\ UNCHANGED preview_scale
        /\ report' = NoReport
        /\ UNCHANGED <<last_run, probe>>
        /\ UNCHANGED <<listVars, paramVars, outVars, files>>

\* The zoom slider: the variable is set, then render_preview_scaled.
ScaleSlider(s) ==
    LET drawn == RenderPreviewScaled(preview_img_full, live_preview_enabled, s,
                                     preview_img_tk, canvas, size_label)
    IN  /\ preview_scale' = s
        /\ preview_img_tk' = drawn.tk
        /\ canvas' = drawn.canvas
        /\ size_label' = drawn.label
        /\ report' = NoReport
        /\ UNCHANGED <<last_run, probe>>
        /\ UNCHANGED <<listVars, paramVars, outVars, timerVars, preview_img_full,
                       live_preview_enabled, files>>

\* The "fit width" button and the canvas's <Configure> event
\* (fit_preview_width_once): both end in fit_preview_width.
FitWidth(canvas_w) ==
    /\ preview_scale' = FitPreviewWidth(preview_img_full, live_preview_enabled,
                                        preview_scale, canvas_w)
    /\ report' = NoReport
    /\ UNCHANGED <<last_run, probe>>
    /\ UNCHANGED <<listVars, paramVars, outVars, timerVars, preview_img_full,
                   preview_img_tk, canvas, size_label, live_preview_enabled, files>>

\* ------------------------------------------------------ the working list
\* Positions are 1-based here: position i is Python's index i - 1.
ListDelete(s, i) == SubSeq(s, 1, i - 1) \o SubSeq(s, i + 1, Len(s))
ListInsert(s, i, v) == SubSeq(s, 1, i - 1) \o <<v>> \o SubSeq(s, i, Len(s))

RECURSIVE Ascending(_)
\* listbox.curselection(): the selected positions in ascending order.
Ascending(S) ==
    IF S = {} THEN <<>>
    ELSE LET m == CHOOSE x \in S : \A y \in S : x <= y
         IN  <<m>> \o Ascending(S \ {m})

\* A removal that walks the selection front to back.
NotReversed(s) == s

Reversed(s) == [i \in 1..Len(s) |-> s[Len(s) + 1 - i]]

\* An add that takes every path it is given.
FilterNothing(ps) == ps

RECURSIVE FilterImages(_)
\* [p for p in paths if is_image_file(p)]
FilterImages(ps) ==
    IF ps = <<>> THEN <<>>
    ELSE (IF is_image_file(ps[1]) THEN <<ps[1]>> ELSE <<>>) \o FilterImages(Tail(ps))

\* _add_paths (add_files and on_drop both end here).
AddPaths(ps) ==
    LET new_paths == FilterImages(ps)
    IN  /\ Len(paths) + Len(new_paths) <= MaxLen
        /\ IF new_paths = <<>>
           THEN UNCHANGED <<listVars, timerVars>>
           ELSE /\ paths' = paths \o new_paths
                /\ listbox' = listbox \o new_paths
                /\ Scheduled
        /\ report' = NoReport
        /\ UNCHANGED <<last_run, probe>>
        /\ UNCHANGED <<paramVars, outVars, viewVars, live_preview_enabled, files>>

RECURSIVE DeleteAll(_, _)
\* for idx in reversed(sel): delete idx.
DeleteAll(s, order) ==
    IF order = <<>> THEN s ELSE DeleteAll(ListDelete(s, order[1]), Tail(order))

\* remove_selected, with sel the selected positions.
RemoveSelected(sel) ==
    /\ sel \subseteq 1..Len(listbox)
    /\ IF sel = {}
       THEN UNCHANGED <<listVars, timerVars>>
       ELSE /\ listbox' = DeleteAll(listbox, Reversed(Ascending(sel)))
            /\ paths' = DeleteAll(paths, Reversed(Ascending(sel)))
            /\ Scheduled
    /\ report' = NoReport
    /\ UNCHANGED <<last_run, probe>>
    /\ UNCHANGED <<paramVars, outVars, viewVars, live_preview_enabled, files>>

\* clear_all: the list afterwards.
ClearedList == <<>>

ClearAll ==
    /\ listbox' = ClearedList
    /\ paths' = ClearedList
    /\ Scheduled
    /\ report' = NoReport
    /\ UNCHANGED <<last_run, probe>>
    /\ UNCHANGED <<paramVars, outVars, viewVars, live_preview_enabled, files>>

\* _swap_items on the pair [paths, listbox].
\* A swap that changes the list box alone.
SwapItemsShownOnly(st, i, j) ==
    [paths |-> st.paths,
     listbox |-> [st.listbox EXCEPT ![i] = st.listbox[j], ![j] = st.listbox[i]]]

SwapItems(st, i, j) ==
    LET vi == st.listbox[i]
        vj == st.listbox[j]
        lb1 == ListInsert(ListDelete(st.listbox, i), i, vj)
        lb2 == ListInsert(ListDelete(lb1, j), j, vi)
    IN  [paths |-> [st.paths EXCEPT ![i] = st.paths[j], ![j] = st.paths[i]],
         listbox |-> lb2]

RECURSIVE MoveLoop(_, _, _)
\* The loop of move_selection over the positions in order, step = -1 or 1.
MoveLoop(st, order, step) ==
    IF order = <<>> THEN st
    ELSE LET i == order[1]
             edge == IF step < 0 THEN 1 ELSE Len(st.listbox)
         IN  IF i = edge
             THEN MoveLoop(st, Tail(order), step)
             ELSE MoveLoop(SwapItems(st, i, i + step), Tail(order), step)

\* move_selection(direction), with sel the selected positions.
MoveSelection(sel, direction) ==
    LET st == [paths |-> paths, listbox |-> listbox]
        order == IF direction < 0 THEN Ascending(sel) ELSE Reversed(Ascending(sel))
        moved == MoveLoop(st, order, direction)
    IN  /\ sel \subseteq 1..Len(listbox)
        /\ IF sel = {}
           THEN UNCHANGED <<listVars, timerVars>>
           ELSE /\ paths' = moved.paths
                /\ listbox' = moved.listbox
                /\ Scheduled
        /\ report' = NoReport
        /\ UNCHANGED <<last_run, probe>>
        /\ UNCHANGED <<paramVars, outVars, viewVars, live_preview_enabled, files>>

\* ------------------------------------------------------ stitch settings
\* The orientation radiobuttons (command=schedule_preview_update).
SetOrient(v) ==
    /\ var_orient' = v
    /\ Scheduled
    /\ report' = NoReport
    /\ UNCHANGED <<last_run, probe>>
    /\ UNCHANGED <<listVars, var_scale, var_spacing, var_bg, var_target_mode, outVars,
                   viewVars, live_preview_enabled, files>>

\* The "align edge" checkbutton.
ToggleAlign ==
    /\ var_scale' = ~var_scale
    /\ Scheduled
    /\ report' = NoReport
    /\ UNCHANGED <<last_run, probe>>
    /\ UNCHANGED <<listVars, var_orient, var_spacing, var_bg, var_target_mode, outVars,
                   viewVars, live_preview_enabled, files>>

\* The target-edge radiobuttons.
SetTargetMode(v) ==
    /\ var_target_mode' = v
    /\ Scheduled
    /\ report' = NoReport
    /\ UNCHANGED <<last_run, probe>>
    /\ UNCHANGED <<listVars, var_orient, var_scale, var_spacing, var_bg, outVars,
                   viewVars, live_preview_enabled, files>>

\* A key released in the spacing entry, which then holds the text t.
SpacingKey(t) ==
    /\ var_spacing' = t
    /\ Scheduled
    /\ report' = NoReport
    /\ UNCHANGED <<last_run, probe>>
    /\ UNCHANGED <<listVars, var_orient, var_scale, var_bg, var_target_mode, outVars,
                   viewVars, live_preview_enabled, files>>

\* Text typed into the background entry (textvariable=self.var_bg; the entry
\* has no binding).
BgEntry(c) ==
    /\ var_bg' = c
    /\ report' = NoReport
    /\ UNCHANGED <<last_run, probe>>
    /\ UNCHANGED <<listVars, var_orient, var_scale, var_spacing, var_target_mode, outVars,
                   viewVars, timerVars, live_preview_enabled, files>>

\* pick_color: the chooser returns the colour c, "" when it is cancelled.
PickColor(c) ==
    /\ IF c # ""
       THEN /\ var_bg' = c
            /\ Scheduled
       ELSE UNCHANGED <<var_bg, timerVars>>
    /\ report' = NoReport
    /\ UNCHANGED <<last_run, probe>>
    /\ UNCHANGED <<listVars, var_orient, var_scale, var_spacing, var_target_mode, outVars,
                   viewVars, live_preview_enabled, files>>

\* ------------------------------------------------------ output settings
SetOutputMode(m) ==
    /\ var_output_mode' = m
    /\ report' = NoReport
    /\ UNCHANGED <<last_run, probe>>
    /\ UNCHANGED <<listVars, paramVars, var_out_dir, var_direct_ext, var_direct_index,
                   var_auto_reset, viewVars, timerVars, live_preview_enabled, files>>

\* choose_output_dir: the chooser returns d, "" when it is cancelled.
ChooseOutputDir(d) ==
    /\ var_out_dir' = IF d # "" THEN d ELSE var_out_dir
    /\ report' = NoReport
    /\ UNCHANGED <<last_run, probe>>
    /\ UNCHANGED <<listVars, paramVars, var_output_mode, var_direct_ext, var_direct_index,
                   var_auto_reset, viewVars, timerVars, live_preview_enabled, files>>

\* The extension combobox (readonly: one of its three values).
SetDirectExt(e) ==
    /\ var_direct_ext' = e
    /\ report' = NoReport
    /\ UNCHANGED <<last_run, probe>>
    /\ UNCHANGED <<listVars, paramVars, var_output_mode, var_out_dir, var_direct_index,
                   var_auto_reset, viewVars, timerVars, live_preview_enabled, files>>

\* Text typed into the "next index" entry.
IndexEntry(t) ==
    /\ var_direct_index' = t
    /\ report' = NoReport
    /\ UNCHANGED <<last_run, probe>>
    /\ UNCHANGED <<listVars, paramVars, var_output_mode, var_out_dir, var_direct_ext,
                   var_auto_reset, viewVars, timerVars, live_preview_enabled, files>>

\* The auto-reset checkbutton.
ToggleAutoReset ==
    /\ var_auto_reset' = ~var_auto_reset
    /\ report' = NoReport
    /\ UNCHANGED <<last_run, probe>>
    /\ UNCHANGED <<listVars, paramVars, var_output_mode, var_out_dir, var_direct_ext,
                   var_direct_index, viewVars, timerVars, live_preview_enabled, files>>

\* ------------------------------------------------------------ run_stitch
ValidSpacing(sp) == sp.ok /\ sp.val >= 0
ValidIndex(ix) == ix.ok /\ ix.val >= 1

\* ext = self.var_direct_ext.get().lower(); png when it is not offered.
DirectExt(e) == IF Lower(e) \notin {"png", "jpg", "webp"} THEN "png" ELSE Lower(e)

\* A writer that does not probe.
ProbeNothing(out_dir, idx, ext, fs) == idx

RECURSIVE ProbeFree(_, _, _, _)
\* while os.path.exists(save_path): idx += 1. The index the loop ends with.
ProbeFree(out_dir, idx, ext, fs) ==
    IF SeqPath(out_dir, idx, ext) \in fs
    THEN ProbeFree(out_dir, idx + 1, ext, fs)
    ELSE idx

\* A counter left at the index just written.
NextIndexSame(idx) == idx

\* self.var_direct_index.set(idx + 1)
NextIndex(idx) == idx + 1

\* An auto-reset that does not look at success_path.
AutoResetAlways(success, auto_reset) == auto_reset

\* if success_path and self.var_auto_reset.get()
AutoResetRuns(success, auto_reset) == success /\ auto_reset

\* _save_image: the image that is encoded into save_path.
\* A save that compares the extension as it is spelled.
SaveImageAsSpelled(img, save_path) ==
    IF save_path.ext \in {"jpg", "jpeg"} /\ img.mode # "RGB"
    THEN [img EXCEPT !.mode = "RGB"]
    ELSE img

SaveImage(img, save_path) ==
    IF Lower(save_path.ext) \in {"jpg", "jpeg"} /\ img.mode # "RGB"
    THEN [img EXCEPT !.mode = "RGB"]
    ELSE img

\* What img.save leaves behind: the file when it succeeds, and when it raises
\* either nothing or a partly written file.
WriteOutcomes == {"ok", "fail_clean", "fail_partial"}

\* The write both output modes end with.
WriteStep(img, save_path, wr, idx) ==
    [result |-> IF wr = "ok" THEN "ok" ELSE "write_failed",
     composed |-> TRUE, path |-> save_path, idx |-> idx,
     wrote |-> wr # "fail_clean", success |-> wr = "ok",
     saved |-> IF wr = "ok" THEN SaveImage(img, save_path) ELSE NoImage]

\* A run that ends before any write.
EarlyReturn(result, composed) ==
    [result |-> result, composed |-> composed, path |-> NoPath, idx |-> 0,
     wrote |-> FALSE, success |-> FALSE, saved |-> NoImage]

\* The sequential branch of run_stitch.
DirectStep(img, wr) ==
    LET out_dir == Strip(var_out_dir)
        ix == IntVarGet(var_direct_index)
        ext == DirectExt(var_direct_ext)
        idx == ProbeFree(out_dir, ix.val, ext, files)
    IN  IF out_dir = "" THEN EarlyReturn("no_dir", TRUE)
        ELSE IF ~isdir(out_dir) THEN EarlyReturn("dir_missing", TRUE)
        ELSE IF ~ValidIndex(ix) THEN EarlyReturn("bad_index", TRUE)
        ELSE WriteStep(img, SeqPath(out_dir, idx, ext), wr, idx)

\* A run that writes the cached preview image when there is one.
RunPlanFromPreview(dlg, wr) ==
    LET spacing == IntVarGet(var_spacing)
        stitched == IF preview_img_full # NoImage
                    THEN [ok |-> TRUE, err |-> "", img |-> preview_img_full]
                    ELSE stitch_images(paths, var_orient, var_scale, spacing.val, var_bg,
                                       var_target_mode)
    IN  IF paths = <<>> THEN EarlyReturn("empty", FALSE)
        ELSE IF ~ValidSpacing(spacing) THEN EarlyReturn("bad_spacing", FALSE)
        ELSE IF ~stitched.ok THEN EarlyReturn("compose_failed", TRUE)
        ELSE IF var_output_mode = "single"
        THEN IF dlg = NoPath THEN EarlyReturn("cancelled", TRUE)
             ELSE WriteStep(stitched.img, dlg, wr, 0)
        ELSE DirectStep(stitched.img, wr)

\* run_stitch up to the auto-reset: dlg is what the save dialog returns, wr
\* what the write does.
RunPlan(dlg, wr) ==
    LET spacing == IntVarGet(var_spacing)
        stitched == stitch_images(paths, var_orient, var_scale, spacing.val, var_bg,
                                  var_target_mode)
    IN  IF paths = <<>> THEN EarlyReturn("empty", FALSE)
        ELSE IF ~ValidSpacing(spacing) THEN EarlyReturn("bad_spacing", FALSE)
        ELSE IF ~stitched.ok THEN EarlyReturn("compose_failed", TRUE)
        ELSE IF var_output_mode = "single"
        THEN IF dlg = NoPath THEN EarlyReturn("cancelled", TRUE)
             ELSE WriteStep(stitched.img, dlg, wr, 0)
        ELSE DirectStep(stitched.img, wr)

\* An auto-reset whose set(1) is overwritten by set(idx + 1).
IndexAfterRunResetLost(plan, direct, reset, old) ==
    IF plan.success /\ direct THEN EntryInt(plan.idx + 1)
    ELSE IF reset THEN EntryInt(1)
    ELSE old

\* The "next index" entry after a run: set(idx + 1) after a sequential write,
\* then set(1) by the auto-reset.
IndexAfterRun(plan, direct, reset, old) ==
    IF reset THEN EntryInt(1)
    ELSE IF plan.success /\ direct THEN EntryInt(NextIndex(plan.idx))
    ELSE old

\* The record of a run: what it started from outside the preview (key) and
\* in the preview, what it left behind (out), and whether the run recorded
\* before it started from the same key and another preview state (twin).
RunRecord(dlg, wr, plan, index_after, paths_after, files_after) ==
    LET key == <<paths, paramVars, outVars, files, dlg, wr>>
        preview == <<live_preview_enabled, preview_img_full, preview_scale, preview_job, timers>>
    IN  [state |-> "run", key |-> key, preview |-> preview,
         out |-> [result |-> plan.result, path |-> plan.path, saved |-> plan.saved,
                  index |-> index_after, paths |-> paths_after, files |-> files_after],
         twin |-> last_run.state = "run" /\ last_run.key = key /\ last_run.preview # preview]

\* The "stitch and output" button.
RunStitch(dlg, wr) ==
    LET plan == RunPlan(dlg, wr)
        direct == var_output_mode # "single"
        reset == AutoResetRuns(plan.success, var_auto_reset)
    IN  /\ plan.idx <= MaxIndex
        /\ files' = IF plan.wrote THEN files \cup {plan.path} ELSE files
        /\ var_direct_index' = IndexAfterRun(plan, direct, reset, var_direct_index)
        /\ IF reset
           THEN /\ listbox' = ClearedList
                /\ paths' = ClearedList
                /\ Scheduled
           ELSE UNCHANGED <<listVars, timerVars>>
        /\ report' = [op |-> "run_stitch", result |-> plan.result,
                      composed |-> plan.composed, path |-> plan.path,
                      saved |-> plan.saved, pre_files |-> files,
                      pre_index |-> var_direct_index, pre_paths |-> paths,
                      pre_img |-> preview_img_full]
        /\ last_run' = IF last_run = NotRecording THEN last_run
                        ELSE RunRecord(dlg, wr, plan, var_direct_index', paths', files')
        /\ UNCHANGED probe
        /\ UNCHANGED <<paramVars, var_output_mode, var_out_dir, var_direct_ext,
                       var_auto_reset, viewVars, live_preview_enabled>>

\* ------------------------------------------------------- specifications
\* What the user can pick, drop, select and type.
AddInputs == {<<PathA>>, <<PathBad>>, <<PathNote>>, <<PathNote, PathB>>, <<PathC>>}
Selections == SUBSET (1..MaxLen)
SpacingTexts == {EntryInt(0), EntryInt(1), EntryInt(-1), EntryText, EntryReal(1)}
IndexTexts == {EntryInt(0), EntryInt(1), EntryText, EntryReal(1)}
BgTexts == {"#00000080", "junk"}
BgChoices == {"", "#000000", "#FFFFFF"}
OutDirs == {"", "out", "gone"}
Viewports == {1, 8}
SliderScales == {FloatDivInt(FloatOfInt(5), 100), FloatOfInt(2)}

ListStep ==
    \/ \E ps \in AddInputs : AddPaths(ps)
    \/ \E sel \in Selections : RemoveSelected(sel)
    \/ ClearAll
    \/ \E sel \in Selections, d \in {-1, 1} : MoveSelection(sel, d)

PreviewStep ==
    \/ \E id \in JobIds, cw \in Viewports : RenderPreviewFull(id, cw)
    \/ ToggleLivePreview

ViewStep ==
    \/ \E s \in SliderScales : ScaleSlider(s)
    \/ \E cw \in Viewports : FitWidth(cw)

ParamStep ==
    \/ \E v \in {"vertical", "horizontal"} : SetOrient(v)
    \/ ToggleAlign
    \/ \E v \in {"max", "min"} : SetTargetMode(v)
    \/ \E t \in SpacingTexts : SpacingKey(t)
    \/ \E c \in BgTexts : BgEntry(c)
    \/ \E c \in BgChoices : PickColor(c)

OutputStep ==
    \/ \E m \in {"single", "direct"} : SetOutputMode(m)
    \/ \E d \in OutDirs : ChooseOutputDir(d)
    \/ \E e \in {"png", "jpg", "webp"} : SetDirectExt(e)
    \/ \E t \in IndexTexts : IndexEntry(t)
    \/ ToggleAutoReset
    \/ \E dlg \in SavePaths \cup {NoPath}, wr \in WriteOutcomes : RunStitch(dlg, wr)

\* The whole application.
Next == ListStep \/ PreviewStep \/ ViewStep \/ ParamStep \/ OutputStep

Spec == Init /\ [][Next]_vars

\* The output writer: a session that puts one file into the list, types a
\* spacing, sets the output controls and runs. The stitch settings other than
\* the spacing stay as constructed, and so does the preview: run_stitch reads
\* none of its state.
SaveInOutDir == [dir |-> "out", stem |-> Str(1), ext |-> "png"]

OutputNext ==
    \/ \E ps \in {<<PathA>>, <<PathBad>>} : paths = <<>> /\ AddPaths(ps)
    \/ ClearAll
    \/ \E t \in {EntryInt(0), EntryInt(-1), EntryText, EntryReal(1)} : SpacingKey(t)
    \/ \E m \in {"single", "direct"} : SetOutputMode(m)
    \/ \E d \in OutDirs : ChooseOutputDir(d)
    \/ \E e \in {"png", "jpg"} : SetDirectExt(e)
    \/ \E t \in IndexTexts : IndexEntry(t)
    \/ ToggleAutoReset
    \/ \E dlg \in {NoPath, SaveInOutDir}, wr \in WriteOutcomes : RunStitch(dlg, wr)

OutputSpec == Init /\ [][OutputNext]_vars

\* The live preview: a session that edits the list and every stitch setting,
\* toggles the preview, and runs single-shot output (with or without
\* auto-reset) over the file an earlier session left.
SaveAtHome == [dir |-> "home", stem |-> <<"stitched">>, ext |-> "png"]

PreviewInit == InitApp /\ files = {SaveAtHome} /\ last_run = NotRecording

PreviewNext ==
    \/ \E ps \in {<<PathA>>, <<PathBad>>, <<PathNote>>} : AddPaths(ps)
    \/ \E sel \in Selections : RemoveSelected(sel)
    \/ ClearAll
    \/ \E sel \in Selections, d \in {-1, 1} : MoveSelection(sel, d)
    \/ \E id \in JobIds : RenderPreviewFull(id, 8)
    \/ ToggleLivePreview
    \/ \E v \in {"vertical", "horizontal"} : SetOrient(v)
    \/ ToggleAlign
    \/ \E v \in {"max", "min"} : SetTargetMode(v)
    \/ \E t \in {EntryInt(0), EntryInt(-1), EntryText} : SpacingKey(t)
    \/ BgEntry("#00000080")
    \/ \E c \in {"", "#FFFFFF"} : PickColor(c)
    \/ ToggleAutoReset
    \/ \E dlg \in {NoPath, SaveAtHome} : RunStitch(dlg, "ok")

PreviewSpec == PreviewInit /\ [][PreviewNext]_vars

\* Two runs: every run is recorded, so that a run can be compared with the
\* one before it. The preview is switched and recomputed in between, and the
\* background is typed in, which leaves the cached preview out of date.
\* Auto-reset is tried in single-file mode only.
TwoRunsInit == InitApp /\ files = {} /\ last_run = NoRun

TwoRunsNext ==
    \/ paths = <<>> /\ AddPaths(<<PathA>>)
    \/ \E id \in JobIds : RenderPreviewFull(id, 8)
    \/ ToggleLivePreview
    \/ BgEntry("#00000080")
    \/ \E m \in {"single", "direct"} : ~var_auto_reset /\ SetOutputMode(m)
    \/ ChooseOutputDir("out")
    \/ var_output_mode = "single" /\ ToggleAutoReset
    \/ \E wr \in {"ok", "fail_clean"} : RunStitch(SaveAtHome, wr)

TwoRunsSpec == TwoRunsInit /\ [][TwoRunsNext]_vars

\* Composition: the application with some list loaded and some settings
\* made, the first recompute still pending; lists are recomputed and cut down.
ComposeFiles == {PathA, PathC, GridFile(3, 2)}

\* The application with the list ps loaded and its first recompute pending;
\* the composition settings are left to the caller.
LoadedApp(ps) ==
    /\ paths = ps
    /\ listbox = ps
    /\ live_preview_enabled = TRUE
    /\ preview_img_full = NoImage
    /\ preview_img_tk = NoDisplay
    /\ preview_scale = FloatDivInt(FloatOfInt(1), 2)
    /\ preview_job = 2
    /\ timers = {2}
    /\ canvas = NoDisplay
    /\ size_label = BlankLabel
    /\ var_output_mode = "single"
    /\ var_out_dir = ""
    /\ var_direct_ext = "png"
    /\ var_direct_index = EntryInt(1)
    /\ var_auto_reset = FALSE
    /\ files = {}
    /\ report = NoReport
    /\ last_run = NotRecording
    /\ probe = NoProbe

ComposeInit ==
    /\ \E ps \in UNION {[1..n -> ComposeFiles] : n \in 0..MaxImages} : LoadedApp(ps)
    /\ var_orient \in {"vertical", "horizontal"}
    /\ var_scale \in BOOLEAN
    /\ var_spacing \in {EntryInt(0), EntryInt(2)}
    /\ var_bg \in {"#FFFFFF", "#00000080"}
    /\ var_target_mode \in {"max", "min"}

ComposeNext ==
    \/ \E id \in JobIds : RenderPreviewFull(id, 8)
    \/ \E sel \in SUBSET (1..MaxImages) : RemoveSelected(sel)

ComposeSpec == ComposeInit /\ [][ComposeNext]_vars

\* Scaling: either two images of any sizes up to MaxPixels that alignment
\* brings to one edge, or one image whose preview is fitted to the viewport
\* and scaled with the slider.
FitViewports == {1, 8, 1000}

ScaleInit ==
    /\ var_spacing = EntryInt(0)
    /\ var_bg = "#FFFFFF"
    /\ \/ /\ var_scale = TRUE
          /\ var_target_mode \in {"max", "min"}
          /\ \E w, h, e \in 1..MaxPixels :
                \/ var_orient = "vertical" /\ LoadedApp(<<GridFile(w, h), GridFile(e, 1)>>)
                \/ var_orient = "horizontal" /\ LoadedApp(<<GridFile(h, w), GridFile(1, e)>>)
       \/ /\ var_scale = FALSE
          /\ var_target_mode = "max"
          /\ var_orient = "vertical"
          /\ \E w \in {1, 3, 7, 2000}, h \in {1, 3} : LoadedApp(<<GridFile(w, h)>>)

ScaleNext ==
    \/ \E id \in JobIds : RenderPreviewFull(id, 8)
    \/ \E canvas_w \in FitViewports : ~var_scale /\ FitWidth(canvas_w)
    \/ \E s \in SliderScales \cup {FloatDivInt(FloatOfInt(1), 2)} : ~var_scale /\ ScaleSlider(s)

ScaleSpec == ScaleInit /\ [][ScaleNext]_vars

\* Saving: one image on an opaque or a half transparent background, written
\* in either output mode to destinations of several extensions.
SaveInit ==
    /\ LoadedApp(<<PathA>>)
    /\ var_orient = "vertical"
    /\ var_scale = TRUE
    /\ var_spacing = EntryInt(0)
    /\ var_bg \in {"#FFFFFF", "#00000080"}
    /\ var_target_mode = "max"

SaveNext ==
    \/ \E m \in {"single", "direct"} : SetOutputMode(m)
    \/ ChooseOutputDir("out")
    \/ \E e \in {"png", "jpg", "JPG"} : SetDirectExt(e)
    \/ \E e \in {"png", "JPG", "Jpeg"} :
          RunStitch([dir |-> "home", stem |-> <<"stitched">>, ext |-> e], "ok")

SaveSpec == SaveInit /\ [][SaveNext]_vars

\* The working list alone: starting from some loaded list, paths are added,
\* removed, cleared and moved, with any selection.
ListNext ==
    \/ \E ps \in AddInputs : AddPaths(ps)
    \/ \E sel \in SUBSET (1..MaxImages) : RemoveSelected(sel)
    \/ ClearAll
    \/ \E sel \in SUBSET (1..MaxImages), d \in {-1, 1} : MoveSelection(sel, d)

ListSpec == ComposeInit /\ [][ListNext]_vars

\* The search for a free name, step by step (run_stitch, lines 617-620): the
\* first candidate is made from the start index; as long as the candidate
\* exists the index goes up by one; the search ends at a candidate that does
\* not exist.

\* A step that leaves the index where it is.
ProbeAdvanceStuck(p) == p

ProbeAdvance(p) == [p EXCEPT !.idx = @ + 1]

ProbeStart ==
    /\ probe.state = "idle"
    /\ var_output_mode = "direct"
    /\ paths # <<>>
    /\ isdir(Strip(var_out_dir))
    /\ ValidIndex(IntVarGet(var_direct_index))
    /\ probe' = [state |-> "probing", idx |-> IntVarGet(var_direct_index).val]
    /\ UNCHANGED <<listVars, paramVars, outVars, viewVars, timerVars, live_preview_enabled,
                   files, report, last_run>>

ProbeStep ==
    /\ probe.state = "probing"
    /\ probe' = IF SeqPath(Strip(var_out_dir), probe.idx, DirectExt(var_direct_ext)) \in files
                THEN ProbeAdvance(probe)
                ELSE [probe EXCEPT !.state = "found"]
    /\ UNCHANGED <<listVars, paramVars, outVars, viewVars, timerVars, live_preview_enabled,
                   files, report, last_run>>

\* One image loaded, sequential output into a directory that holds any of
\* the files 1.png .. MaxProbe.png, the counter anywhere from 1 to MaxProbe.
ProbeInit ==
    /\ paths = <<PathA>>
    /\ listbox = paths
    /\ live_preview_enabled = TRUE
    /\ preview_img_full = NoImage
    /\ preview_img_tk = NoDisplay
    /\ preview_scale = FloatDivInt(FloatOfInt(1), 2)
    /\ preview_job = 2
    /\ timers = {2}
    /\ canvas = NoDisplay
    /\ size_label = BlankLabel
    /\ var_orient = "vertical"
    /\ var_scale = TRUE
    /\ var_spacing = EntryInt(0)
    /\ var_bg = "#FFFFFF"
    /\ var_target_mode = "max"
    /\ var_output_mode = "direct"
    /\ var_out_dir = "out"
    /\ var_direct_ext = "png"
    /\ var_direct_index \in {EntryInt(k) : k \in 1..MaxProbe}
    /\ var_auto_reset = FALSE
    /\ files \in SUBSET {SeqPath("out", k, "png") : k \in 1..MaxProbe}
    /\ report = NoReport
    /\ last_run = NotRecording
    /\ probe = NoProbe

\* The loop runs inside one call of the handler: a step that can be taken
\* is taken.
ProbeSpec == ProbeInit /\ [][ProbeStart \/ ProbeStep]_vars /\ WF_vars(ProbeStart \/ ProbeStep)

\* ----------------------------------------------------------- the claims
Ran == report.op = "run_stitch"
Direct == var_output_mode = "direct"
Rendered == report.op = "render_preview_full"

\* C1: a sequential run never overwrites: whatever a run in direct mode
\* wrote, it wrote to a path that did not exist when the run started, and
\* every file that existed then is still there, the only new file being the
\* one written.
C1_SequentialNeverOverwrites ==
    (Ran /\ Direct) =>
        /\ report.pre_files \subseteq files
        /\ report.path # NoPath => report.path \notin report.pre_files
        /\ files \ report.pre_files \subseteq {report.path}

\* A successful sequential run whose start index was taken.
C1_Witness ==
    /\ Ran /\ Direct /\ report.result = "ok"
    /\ SeqPath("out", IntVarGet(report.pre_index).val, report.path.ext) \in report.pre_files
    /\ report.path \in files

\* C2: with auto-reset off, a successful sequential write started at s writes
\* k.ext for the least k >= s that was free, and leaves the counter at k + 1.
C2_LeastFreeIndex ==
    (Ran /\ Direct /\ report.result = "ok" /\ ~var_auto_reset) =>
        LET s == report.pre_index.val
            name(k) == [dir |-> var_out_dir, stem |-> Str(k), ext |-> var_direct_ext]
        IN  /\ s >= 1
            /\ \E k \in s..MaxIndex :
                  /\ report.path = name(k)
                  /\ name(k) \notin report.pre_files
                  /\ \A j \in s..(k - 1) : name(j) \in report.pre_files
                  /\ var_direct_index = EntryInt(k + 1)

\* A write that had to skip the start index.
C2_Witness ==
    /\ Ran /\ Direct /\ report.result = "ok" /\ ~var_auto_reset
    /\ report.pre_index = EntryInt(1)
    /\ report.path.stem = Str(2)
    /\ var_direct_index = EntryInt(3)

\* C3: a failed write, single-shot or sequential, leaves the counter and the
\* working list as they were, auto-reset flag on or off.
C3_FailedWriteKeepsState ==
    (Ran /\ report.result = "write_failed") =>
        /\ var_direct_index = report.pre_index
        /\ paths = report.pre_paths
        /\ listbox = report.pre_paths
        /\ paths # <<>>

\* A failed sequential write with auto-reset on and the counter not at 1.
C3_Witness ==
    /\ Ran /\ Direct /\ report.result = "write_failed"
    /\ var_auto_reset
    /\ var_direct_index = EntryInt(2)

\* C4: after a successful write with auto-reset on the working list is empty
\* and, in sequential mode, the counter is 1; with auto-reset off the run
\* leaves the working list as it was.
C4_AutoResetAfterSuccess ==
    (Ran /\ report.result = "ok") =>
        IF var_auto_reset
        THEN /\ paths = <<>>
             /\ listbox = <<>>
             /\ Direct => var_direct_index = EntryInt(1)
        ELSE /\ paths = report.pre_paths
             /\ listbox = report.pre_paths

\* A sequential write of 2.png with auto-reset on: the counter is 1, not 3.
C4_Witness ==
    /\ Ran /\ Direct /\ report.result = "ok" /\ var_auto_reset
    /\ report.path.stem = Str(2)
    /\ var_direct_index = EntryInt(1)

\* The texts the claims call invalid: a spacing that is negative or no integer
\* (C5), a start index that is below 1 or no integer (C6).
SpacingTextInvalid(t) == t.kind # "int" \/ t.val < 0
IndexTextInvalid(t) == t.kind # "int" \/ t.val < 1

\* C5: a run (of a non-empty list) with a spacing that is negative or no
\* integer, or in sequential mode with a start index below 1, fails as an
\* invalid parameter and never calls stitch_images.
C5_InvalidParameterRefused ==
    (Ran /\ report.pre_paths # <<>>
         /\ (SpacingTextInvalid(var_spacing)
             \/ (Direct /\ report.pre_index.kind = "int" /\ report.pre_index.val < 1))) =>
        /\ report.result \in {"bad_spacing", "bad_index"}
        /\ ~report.composed

\* C6: a sequential run whose directory is unset or missing, or
\* whose start index is below 1 or no integer, creates no file and leaves the
\* counter and the working list as they were.
C6_RejectedBeforeWrite ==
    (Ran /\ Direct /\ (Strip(var_out_dir) = "" \/ ~isdir(Strip(var_out_dir))
                       \/ IndexTextInvalid(report.pre_index))) =>
        /\ files = report.pre_files
        /\ var_direct_index = report.pre_index
        /\ paths = report.pre_paths

\* C7: at most one recompute timer is pending, it is the one the handle
\* names, and once a recompute has run none is pending: a burst of requests
\* ends in one recompute.
C7_OneTimer ==
    /\ Cardinality(timers) <= 1
    /\ timers = IF preview_job = NoJob THEN {} ELSE {preview_job}
    /\ Rendered => timers = {}

\* A timer that replaced a pending one, some file being in the list.
C7_Witness == preview_job = 2 /\ timers = {2} /\ paths # <<>>

\* C8 as stated: with live preview on, every change of a stitch setting or of
\* the working list, and switching the preview on, leaves a recompute pending.
C8_AsStated ==
    [][(live_preview_enabled' /\ (paramVars' # paramVars \/ paths' # paths
                                   \/ ~live_preview_enabled))
         => timers' # {}]_vars

\* C9 as stated: after a recompute that did not produce an image (empty list,
\* invalid spacing, stitch_images raising) no composed image is cached or shown.
C9_AsStated ==
    (Rendered /\ report.result # "ok") =>
        (preview_img_full = NoImage /\ canvas = NoDisplay)

\* C9, amended: after a recompute on an empty list or one in which
\* stitch_images raised, no composed image is cached or shown; a recompute
\* that finds the spacing invalid leaves the cached image and the canvas as
\* they were.
C9_FailedRecompute ==
    Rendered =>
        /\ report.result \in {"cleared", "failed"} =>
              (preview_img_full = NoImage /\ canvas = NoDisplay)
        /\ report.result = "bad_spacing" => preview_img_full = report.pre_img
        /\ report.result = "failed" => size_label = FailedLabel

\* stitch_images raised while an earlier image was cached.
C9_Witness ==
    /\ Rendered /\ report.result = "failed"
    /\ report.pre_img # NoImage

\* C10: while live preview is off no timer is pending and no composed image
\* is cached or shown, and switching it off changes neither the working list
\* nor the stitch settings.
C10_PreviewOff ==
    /\ [](~live_preview_enabled =>
            (timers = {} /\ preview_job = NoJob /\ preview_img_full = NoImage
                         /\ canvas = NoDisplay))
    /\ [][(live_preview_enabled /\ ~live_preview_enabled')
            => (paths' = paths /\ listbox' = listbox /\ paramVars' = paramVars)]_vars

\* Preview switched off with files in the list and a translucent background.
C10_Witness ==
    /\ ~live_preview_enabled
    /\ paths # <<>>
    /\ var_bg = "#00000080"

\* C11: the preview has no effect on the output: a run that starts from the
\* working list, stitch settings, output settings, directory contents and
\* answers of the run recorded before it writes the same file with the same
\* image and leaves the same counter, working list and files, whatever the
\* preview was switched to, had cached, or had pending at either run.
C11_PreviewHasNoEffect ==
    [][(last_run.state = "run" /\ last_run'.state = "run" /\ last_run'.key = last_run.key)
         => last_run'.out = last_run.out]_vars

\* Two writes from the same list and settings, the preview having changed
\* in between; the later one ran with the preview switched off.
C11_Witness ==
    /\ last_run.state = "run" /\ last_run.twin
    /\ last_run.out.result = "ok"
    /\ last_run.out.saved # NoImage
    /\ ~live_preview_enabled

\* The images of the working list as they are opened, and the image the
\* last recompute cached.
Opened == [i \in DOMAIN paths |-> open_image_safe(paths[i])]
OpenedWidths == [i \in DOMAIN paths |-> Opened[i].w]
OpenedHeights == [i \in DOMAIN paths |-> Opened[i].h]
Recomputed == Rendered /\ report.result = "ok"

\* C12: alignment off, n images, spacing s >= 0. Vertical: the canvas is as
\* high as the heights together plus s * (n - 1) and as wide as the widest
\* image. Horizontal: as wide as the widths together plus s * (n - 1) and as
\* high as the highest image. One image: no spacing.
C12_CanvasSize ==
    (Recomputed /\ ~var_scale) =>
        LET n == Len(paths)
            s == var_spacing.val
        IN  /\ n >= 1
            /\ var_orient = "vertical" =>
                  /\ preview_img_full.h = SeqSum(OpenedHeights) + s * (n - 1)
                  /\ preview_img_full.w = SeqMax(OpenedWidths)
            /\ var_orient = "horizontal" =>
                  /\ preview_img_full.w = SeqSum(OpenedWidths) + s * (n - 1)
                  /\ preview_img_full.h = SeqMax(OpenedHeights)
            /\ n = 1 => (preview_img_full.w = Opened[1].w /\ preview_img_full.h = Opened[1].h)

\* Three images of different widths, stacked with a spacing of 2.
C12_Witness ==
    /\ Recomputed /\ ~var_scale /\ var_orient = "vertical"
    /\ paths = <<PathA, GridFile(3, 2), PathC>>
    /\ var_spacing = EntryInt(2)
    /\ preview_img_full.h = 9 /\ preview_img_full.w = 3

\* C13: alignment on. The target edge is the largest (max) or smallest (min)
\* of the widths (vertical) or heights (horizontal) of the opened images;
\* every pasted image has that edge, so has the canvas, and an image that
\* had it already is pasted with both of its dimensions as they were.
C13_AlignedEdge ==
    (Recomputed /\ var_scale) =>
        LET edges == IF var_orient = "vertical" THEN OpenedWidths ELSE OpenedHeights
            target == IF var_target_mode = "max" THEN SeqMax(edges) ELSE SeqMin(edges)
            piece(i) == preview_img_full.pieces[i]
            edge(im) == IF var_orient = "vertical" THEN im.w ELSE im.h
        IN  /\ Len(preview_img_full.pieces) = Len(paths)
            /\ edge(preview_img_full) = target
            /\ \A i \in DOMAIN paths :
                  /\ edge(piece(i)) = target
                  /\ edges[i] = target =>
                        (piece(i).w = Opened[i].w /\ piece(i).h = Opened[i].h)

\* Aligned to the smallest width: one image is shrunk, one is already there.
C13_Witness ==
    /\ Recomputed /\ var_scale /\ var_orient = "vertical" /\ var_target_mode = "min"
    /\ paths = <<GridFile(3, 2), PathA>>
    /\ preview_img_full.w = 2
    /\ preview_img_full.pieces[1].h = 1

\* The quotient n / d rounded to the nearest integer, halves upwards.
RoundHalfUp(n, d) == (2 * n + d) \div (2 * d)
Abs(n) == IF n < 0 THEN -n ELSE n

\* For the image at position i of an aligned composition: the edge that is
\* aligned and the other dimension, as opened and as pasted.
AlignedEdges == IF var_orient = "vertical" THEN OpenedWidths ELSE OpenedHeights
OtherEdges == IF var_orient = "vertical" THEN OpenedHeights ELSE OpenedWidths
TargetEdge == IF var_target_mode = "max" THEN SeqMax(AlignedEdges) ELSE SeqMin(AlignedEdges)
PastedOther(i) ==
    IF var_orient = "vertical" THEN preview_img_full.pieces[i].h
    ELSE preview_img_full.pieces[i].w

\* C14 as stated: a resized image of size (w, h) brought to the edge W gets
\* the other dimension max(1, round(h * W / w)), round being the rounding of
\* the exact quotient (halves to even, or halves upwards).
C14_AsStated ==
    (Recomputed /\ var_scale) =>
        \A i \in DOMAIN paths :
            AlignedEdges[i] # TargetEdge =>
                PastedOther(i) \in
                    {Max2(1, PyRound(OtherEdges[i] * TargetEdge, AlignedEdges[i])),
                     Max2(1, RoundHalfUp(OtherEdges[i] * TargetEdge, AlignedEdges[i]))}

\* C14 amended: the other dimension of a resized image is at least 1 and,
\* unless it is 1, an integer nearest to h * W / w (at an exact half the
\* lower or the upper neighbour); it is within 1 pixel of h * W / w.
C14_NearestPixel ==
    (Recomputed /\ var_scale) =>
        \A i \in DOMAIN paths :
            AlignedEdges[i] # TargetEdge =>
                LET off == Abs(PastedOther(i) * AlignedEdges[i] - OtherEdges[i] * TargetEdge)
                IN  /\ PastedOther(i) >= 1
                    /\ off <= AlignedEdges[i]
                    /\ PastedOther(i) = 1 \/ 2 * off <= AlignedEdges[i]

\* A 14 x 21 image widened to 17: 21 * 17 / 14 is 25.5 and the image gets 25.
C14_Witness ==
    /\ Recomputed /\ var_scale /\ var_orient = "vertical"
    /\ paths = <<GridFile(14, 21), GridFile(17, 1)>>
    /\ var_target_mode = "max"
    /\ preview_img_full.pieces[1].w = 17
    /\ preview_img_full.pieces[1].h = 25

\* C15: an empty working list never produces output. Composing the empty
\* list fails with EmptyInput and gives no canvas; a run started on an empty
\* list composes nothing, writes no file and leaves the counter as it was; a
\* recompute that finds the list empty leaves no cached and no displayed image.
C15_EmptyListNoOutput ==
    /\ stitch_images(<<>>, var_orient, var_scale, 0, var_bg, var_target_mode)
          = [ok |-> FALSE, err |-> "EmptyInput", img |-> NoImage]
    /\ (Ran /\ report.pre_paths = <<>>) =>
          /\ ~report.composed
          /\ report.saved = NoImage
          /\ files = report.pre_files
          /\ var_direct_index = report.pre_index
    /\ (Rendered /\ report.pre_paths = <<>>) =>
          /\ ~report.composed
          /\ preview_img_full = NoImage
          /\ canvas = NoDisplay
          /\ size_label = BlankLabel

\* An image was cached, the list was emptied, and the recompute cleared it.
C15_Witness ==
    /\ Rendered /\ report.pre_paths = <<>>
    /\ report.pre_img # NoImage
    /\ live_preview_enabled
    /\ preview_img_full = NoImage

\* C16 as stated: the composed image is RGB if and only if the alpha of the
\* background colour is 255 and no image of the list has an alpha channel;
\* in every other case it is RGBA.
C16_ModeIffOpaque ==
    Recomputed =>
        /\ preview_img_full.mode \in {"RGB", "RGBA"}
        /\ preview_img_full.mode = "RGB" <=>
              /\ parse_color(var_bg)[4] = 255
              /\ \A i \in DOMAIN paths : Opened[i].mode # "RGBA"

\* The image the last run composed: the run changes neither the list (auto
\* reset off) nor the settings it was composed with.
RunComposed ==
    stitch_images(report.pre_paths, var_orient, var_scale, var_spacing.val, var_bg,
                  var_target_mode).img

\* C17: a file written to a destination whose extension is jpg or jpeg in
\* any letter case holds an opaque RGB image, whatever the mode of the
\* composed image, in single-file and in sequential mode; a file written to
\* any other extension holds the composed image in its own mode.
C17_JpegIsOpaque ==
    (Ran /\ report.result = "ok") =>
        IF report.path.ext \in {"jpg", "JPG", "jpeg", "Jpeg"}
        THEN /\ report.saved.mode = "RGB"
             /\ report.saved = [RunComposed EXCEPT !.mode = "RGB"]
        ELSE report.saved = RunComposed

\* A half transparent composition written to stitched.JPG.
C17_Witness ==
    /\ Ran /\ report.result = "ok"
    /\ report.path.ext = "JPG"
    /\ RunComposed.mode = "RGBA"
    /\ report.saved.mode = "RGB"

\* The entries of s at the positions outside sel, in the order they have in s.
Kept(s, sel) ==
    LET keep == {i \in 1..Len(s) : i \notin sel}
    IN  [k \in 1..Cardinality(keep) |->
            s[CHOOSE i \in keep : Cardinality({j \in keep : j <= i}) = k]]

\* C18: removing any selection leaves the list, and the list box with it,
\* holding exactly the entries that were not selected, in the order they
\* had; the recompute that follows composes the list as it then is, which is
\* the composition of the remaining entries under the same settings.
C18_RemovalKeepsOrder ==
    /\ [][\A sel \in SUBSET (1..MaxImages) :
            (sel # {} /\ RemoveSelected(sel)) =>
                /\ paths' = Kept(paths, sel)
                /\ listbox' = paths'
                /\ stitch_images(paths', var_orient', var_scale', var_spacing'.val, var_bg',
                                 var_target_mode')
                     = stitch_images(Kept(paths, sel), var_orient, var_scale,
                                     var_spacing.val, var_bg, var_target_mode)]_vars
    /\ [](Recomputed =>
            preview_img_full = stitch_images(paths, var_orient, var_scale, var_spacing.val,
                                             var_bg, var_target_mode).img)

\* A composition of three images was cached, one image was removed, and the
\* recompute composed the two that were left.
C18_Witness ==
    /\ Recomputed
    /\ report.pre_img # NoImage
    /\ Len(report.pre_img.pieces) = 3
    /\ paths = <<PathA, PathC>>
    /\ Len(preview_img_full.pieces) = 2
    /\ preview_img_full.pieces[1].src = PathA
    /\ preview_img_full.pieces[2].src = PathC

\* C16 amended: the composed image is RGB if and only if the alpha of the
\* background colour is 255, whatever the modes of the images of the list: an
\* image with an alpha channel on an opaque background is flattened.
C16_ModeFromBackground ==
    Recomputed =>
        /\ preview_img_full.mode \in {"RGB", "RGBA"}
        /\ preview_img_full.mode = "RGB" <=> parse_color(var_bg)[4] = 255

\* An RGBA image composed on opaque white.
C16_Witness ==
    /\ Recomputed
    /\ \E i \in DOMAIN paths : Opened[i].mode = "RGBA"
    /\ var_bg = "#FFFFFF"
    /\ preview_img_full.mode = "RGB"

\* The scale s in ten-thousandths, fraction dropped.
TenThousandths(s) == FloatInt(FloatMulInt(10000, s))

\* C19: fitting a composed image of width cw to a viewport of width vw sets
\* the scale clamp(vw * 0.98 / cw, 0.05, 3.0): 3.0 where the quotient is
\* above it, 0.05 where it is below, the quotient itself in between (to the
\* ten-thousandth), and 0.49 for 1000 and 2000. The scale is always within
\* [0.05, 3.0].
C19_FitScale ==
    /\ [](~FloatLt(preview_scale, FloatDivInt(FloatOfInt(5), 100))
            /\ ~FloatLt(FloatOfInt(3), preview_scale))
    /\ [][\A vw \in FitViewports :
            (FitWidth(vw) /\ preview_img_full # NoImage /\ live_preview_enabled) =>
                LET cw == preview_img_full.w
                IN  /\ 98 * vw > 300 * cw => preview_scale' = FloatOfInt(3)
                    /\ 98 * vw < 5 * cw => preview_scale' = FloatDivInt(FloatOfInt(5), 100)
                    /\ (5 * cw <= 98 * vw /\ 98 * vw <= 300 * cw) =>
                          TenThousandths(preview_scale') \in
                              {(9800 * vw) \div cw - 1, (9800 * vw) \div cw}
                    /\ (vw = 1000 /\ cw = 2000) =>
                          preview_scale' = FloatDivInt(FloatOfInt(49), 100)]_vars

\* A composition 2000 wide fitted to a viewport of 1000: the scale is 0.49.
C19_Witness ==
    /\ report.op = "none"
    /\ preview_img_full # NoImage /\ preview_img_full.w = 2000
    /\ live_preview_enabled
    /\ preview_scale = FloatDivInt(FloatOfInt(49), 100)

\* C20 as stated: at the scale 0.5 the display buffer of a composed image
\* W x H is round(W * 0.5) x round(H * 0.5), at least 1 each (halves to
\* even, or halves upwards), and the cached image stays as it is.
C20_AsStated ==
    [][(ScaleSlider(FloatDivInt(FloatOfInt(1), 2)) /\ preview_img_full # NoImage
          /\ live_preview_enabled) =>
            /\ preview_img_tk'.w \in {Max2(1, PyRound(preview_img_full.w, 2)),
                                      Max2(1, RoundHalfUp(preview_img_full.w, 2))}
            /\ preview_img_tk'.h \in {Max2(1, PyRound(preview_img_full.h, 2)),
                                      Max2(1, RoundHalfUp(preview_img_full.h, 2))}
            /\ preview_img_full' = preview_img_full]_vars

\* n pixels at the scale s with the fraction dropped, at least 1; s is taken
\* to the ten-thousandth, so the size lies between the two values.
FloorSizes(n, s) ==
    Max2(1, (n * TenThousandths(s)) \div 10000)
        .. Max2(1, (n * (TenThousandths(s) + 1)) \div 10000)

\* C20 amended: the display buffer of a composed image W x H at the scale s
\* is floor(W * s) x floor(H * s), at least 1 each, whenever the slider is
\* moved and whenever a recompute has drawn; the cached image stays as it is.
C20_ScaledBuffer ==
    /\ [][\A s \in SliderScales \cup {FloatDivInt(FloatOfInt(1), 2)} :
            (ScaleSlider(s) /\ preview_img_full # NoImage /\ live_preview_enabled) =>
                /\ preview_img_tk'.w \in FloorSizes(preview_img_full.w, s)
                /\ preview_img_tk'.h \in FloorSizes(preview_img_full.h, s)
                /\ canvas' = preview_img_tk'
                /\ preview_img_full' = preview_img_full]_vars
    /\ [](Recomputed =>
            /\ preview_img_tk.w \in FloorSizes(preview_img_full.w, preview_scale)
            /\ preview_img_tk.h \in FloorSizes(preview_img_full.h, preview_scale))

\* An image 3 wide at the scale 0.5: the buffer is 1 wide.
C20_Witness ==
    /\ report.op = "none"
    /\ preview_img_full # NoImage /\ preview_img_full.w = 3 /\ preview_img_full.h = 3
    /\ preview_scale = FloatDivInt(FloatOfInt(1), 2)
    /\ preview_img_tk = [w |-> 1, h |-> 1]

\* The extensions the claim names, in any letter case the inputs use.
Supported(p) ==
    p.ext \in {"jpg", "jpeg", "png", "bmp", "gif", "webp", "tif", "tiff",
               "JPG", "Jpeg", "PNG"}

\* C22: every entry of the working list, and so every path that is opened,
\* has a supported extension, whatever was added, removed, cleared or moved;
\* an add takes the supported paths it is given, in their order, and an add
\* with no supported path leaves the list as it was.
C22_OnlySupportedPaths ==
    /\ [](\A i \in DOMAIN paths : Supported(paths[i]))
    /\ [][\A ps \in AddInputs :
            AddPaths(ps) =>
                /\ paths' = paths \o Kept(ps, {i \in DOMAIN ps : ~Supported(ps[i])})
                /\ (\A i \in DOMAIN ps : ~Supported(ps[i])) =>
                      (paths' = paths /\ listbox' = listbox)]_vars

\* The JPG file of a mixed add is in the list, the text file is not.
C22_Witness ==
    /\ \E i \in DOMAIN paths : paths[i] = PathB
    /\ \A i \in DOMAIN paths : paths[i] # PathNote
    /\ Len(paths) = 2

\* How often the entry p occurs in the list s.
Occurrences(s, p) == Cardinality({i \in DOMAIN s : s[i] = p})

\* C24: the list box and the path list are the same sequence, whatever was
\* added, removed, cleared or moved and whatever was selected. A move keeps
\* the length of the list and how often every entry occurs in it; a move of
\* one selected entry that is not the first (up) or the last (down) swaps
\* it with its neighbour and leaves all other positions as they were.
C24_ListsInStep ==
    /\ [](listbox = paths)
    /\ [][\A sel \in SUBSET (1..MaxImages), d \in {-1, 1} :
            MoveSelection(sel, d) =>
                /\ Len(paths') = Len(paths)
                /\ \A i \in DOMAIN paths :
                      Occurrences(paths', paths[i]) = Occurrences(paths, paths[i])
                /\ \A i \in DOMAIN paths :
                      (sel = {i} /\ i + d \in DOMAIN paths) =>
                          /\ paths'[i + d] = paths[i]
                          /\ paths'[i] = paths[i + d]
                          /\ \A j \in DOMAIN paths \ {i, i + d} : paths'[j] = paths[j]]_vars

\* Three different entries, so that a move of the middle one shows.
C24_Witness ==
    /\ paths = <<PathC, GridFile(3, 2), PathA>>
    /\ listbox = paths
    /\ preview_job = 1

\* The pasted image i of the cached composition along the axis of stacking
\* (main) and across it: where it starts and how far it reaches.
Piece(i) == preview_img_full.pieces[i]
MainStart(i) == IF var_orient = "vertical" THEN Piece(i).y ELSE Piece(i).x
CrossStart(i) == IF var_orient = "vertical" THEN Piece(i).x ELSE Piece(i).y
MainSize(i) == IF var_orient = "vertical" THEN Piece(i).h ELSE Piece(i).w
CrossSize(i) == IF var_orient = "vertical" THEN Piece(i).w ELSE Piece(i).h
MainExtent == IF var_orient = "vertical" THEN preview_img_full.h ELSE preview_img_full.w
CrossExtent == IF var_orient = "vertical" THEN preview_img_full.w ELSE preview_img_full.h

\* C23: with spacing s >= 0 the image at position i (counted from 1) is
\* pasted at 0 across the axis and, along it, at the sizes of the images
\* before it together plus (i - 1) * s. So no two pasted regions overlap,
\* every region lies inside the canvas, and the last image ends where the
\* canvas ends.
C23_PasteOffsets ==
    Recomputed =>
        LET n == Len(preview_img_full.pieces)
            s == var_spacing.val
        IN  /\ n = Len(paths)
            /\ \A i \in 1..n :
                  /\ CrossStart(i) = 0
                  /\ MainStart(i) = SeqSum([j \in 1..(i - 1) |-> MainSize(j)]) + (i - 1) * s
                  /\ MainStart(i) >= 0
                  /\ MainStart(i) + MainSize(i) <= MainExtent
                  /\ CrossSize(i) <= CrossExtent
            /\ \A i, j \in 1..n :
                  i < j => MainStart(i) + MainSize(i) <= MainStart(j)
            /\ MainStart(n) + MainSize(n) = MainExtent

\* Three images side by side with a spacing of 2: they start at 0, 4 and 7
\* on a canvas 10 wide.
C23_Witness ==
    /\ Recomputed /\ ~var_scale /\ var_orient = "horizontal"
    /\ var_spacing = EntryInt(2)
    /\ paths = <<PathA, PathC, GridFile(3, 2)>>
    /\ Piece(2).x = 4 /\ Piece(3).x = 7
    /\ preview_img_full.w = 10

\* The candidate name with the number k, and the number the search began at.
ProbeName(k) == SeqPath(Strip(var_out_dir), k, DirectExt(var_direct_ext))
ProbeFrom == IntVarGet(var_direct_index).val

\* C21: the search for a free name ends, whatever finite set of files the
\* directory holds and wherever (>= 1) it starts. It goes up by one at a
\* time over names that exist only, at most once for every file there is,
\* and ends at the first name that does not exist: it does not go on past
\* a gap. The free name is the one the write uses.
C21_ProbeTerminates ==
    /\ (probe.state = "probing") ~> (probe.state = "found")
    /\ [](probe.state # "idle" =>
            /\ probe.idx >= ProbeFrom
            /\ probe.idx - ProbeFrom <= Cardinality(files)
            /\ \A k \in ProbeFrom..(probe.idx - 1) : ProbeName(k) \in files)
    /\ [](probe.state = "found" =>
            /\ ProbeName(probe.idx) \notin files
            /\ probe.idx = ProbeFree(Strip(var_out_dir), ProbeFrom, DirectExt(var_direct_ext),
                                      files))

\* 1.png, 2.png and 4.png exist: the search from 1 ends at 3, before 4.
C21_Witness ==
    /\ probe = [state |-> "found", idx |-> 3]
    /\ ProbeFrom = 1
    /\ files = {ProbeName(1), ProbeName(2), ProbeName(4)}

====
